---- MODULE Spec2Model ----
(***************************************************************************)
(* A model of app.py (GSD-84 reformatting tool): process_excel, its two    *)
(* nested converters convert_invoice and convert_date, and main.           *)
(*                                                                         *)
(* Text is a sequence of characters (one-character strings, plus the       *)
(* tokens "ar3" for U+0663 ARABIC-INDIC DIGIT THREE and "sup2" for U+00B2  *)
(* SUPERSCRIPT TWO).  Amounts are exact binary fractions, counted in       *)
(* eighths (n stands for n/8), so that float formatting is exact.          *)
(***************************************************************************)
EXTENDS Integers, Sequences, FiniteSets, TLC

VARIABLES
    uploaded_file,  \* main: the file the uploader widget returned
    pc,             \* the statement main / process_excel is about to run
    df,             \* process_excel: the local DataFrame df
    df_final,       \* main: the frame process_excel returned
    exc,            \* the exception caught by main's except clause ("" if none)
    preview,        \* what st.dataframe shows
    csv_data,       \* main: the CSV produced from df_final
    download,       \* what st.download_button offers
    errors,         \* the messages st.error has shown in this run
    log,            \* history: <<file, outcome>> of every finished run
    arg,            \* the argument of a converter called on its own
    ret,            \* its result
    apply_empty_result  \* what the installed pandas returns from
                        \* DataFrame.apply(axis=1) on a frame without rows

vars == <<uploaded_file, pc, df, df_final, exc, preview, csv_data, download,
          errors, log, arg, ret, apply_empty_result>>

(***************************************************************************)
(* Bounds of the model.                                                    *)
(***************************************************************************)
MaxRows == 3
MaxRerunRows == 1
MaxRuns == 3
MaxInvoiceLen == 3
MaxCardLen == 6

(***************************************************************************)
(* Python values.  k is the Python type, s the text of a str, n the        *)
(* number of an int or float (in eighths), t the <<year, month, day,       *)
(* hour>> of a pandas Timestamp or a datetime.datetime.                    *)
(***************************************************************************)
NaN == [k |-> "nan", s |-> <<>>, n |-> 0, t |-> <<>>]
NaT == [k |-> "NaT", s |-> <<>>, n |-> 0, t |-> <<>>]
StrVal(s) == [k |-> "str", s |-> s, n |-> 0, t |-> <<>>]
IntVal(i) == [k |-> "int", s |-> <<>>, n |-> 8 * i, t |-> <<>>]
FloatVal(n) == [k |-> "float", s |-> <<>>, n |-> n, t |-> <<>>]
TimestampVal(t) == [k |-> "Timestamp", s |-> <<>>, n |-> 0, t |-> t]
DatetimeVal(t) == [k |-> "datetime", s |-> <<>>, n |-> 0, t |-> t]

\* pd.isna on a scalar
IsNa(v) == v.k \in {"nan", "NaT"}

\* isinstance(v, pd.Timestamp): Timestamp subclasses datetime, not the reverse
IsTimestamp(v) == v.k = "Timestamp"

(***************************************************************************)
(* Results of calls: a returned value or a raised exception.               *)
(***************************************************************************)
Return(v) == [ok |-> TRUE, v |-> v, e |-> ""]
Raise(e) == [ok |-> FALSE, v |-> <<>>, e |-> e]

(***************************************************************************)
(* Python text operations.                                                 *)
(***************************************************************************)
AsciiDigits == {"0", "1", "2", "3", "4", "5", "6", "7", "8", "9"}

\* characters str.strip() removes (here: space and tab)
Whitespace == {" ", "\t"}

\* characters for which str.isdigit() holds: Numeric_Type Decimal or Digit
IsDigitChars == AsciiDigits \cup {"ar3", "sup2"}

\* characters int() accepts as digits: Numeric_Type Decimal only
DecimalChars == AsciiDigits \cup {"ar3"}

DigitValue(c) ==
    CASE c = "0" -> 0 [] c = "1" -> 1 [] c = "2" -> 2 [] c = "3" -> 3
      [] c = "4" -> 4 [] c = "5" -> 5 [] c = "6" -> 6 [] c = "7" -> 7
      [] c = "8" -> 8 [] c = "9" -> 9 [] c = "ar3" -> 3

DigitChar(d) ==
    CASE d = 0 -> "0" [] d = 1 -> "1" [] d = 2 -> "2" [] d = 3 -> "3"
      [] d = 4 -> "4" [] d = 5 -> "5" [] d = 6 -> "6" [] d = 7 -> "7"
      [] d = 8 -> "8" [] d = 9 -> "9"

RECURSIVE LStrip(_)
LStrip(s) ==
    IF s # <<>> /\ Head(s) \in Whitespace THEN LStrip(Tail(s)) ELSE s

RECURSIVE RStrip(_)
RStrip(s) ==
    IF s # <<>> /\ s[Len(s)] \in Whitespace
    THEN RStrip(SubSeq(s, 1, Len(s) - 1))
    ELSE s

\* str.strip()
Strip(s) == RStrip(LStrip(s))

\* str.isdigit(): non-empty and every character a digit character
IsDigit(s) == s # <<>> /\ \A i \in 1..Len(s) : s[i] \in IsDigitChars

RECURSIVE DecimalValue(_)
DecimalValue(s) ==
    IF s = <<>> THEN 0
    ELSE 10 * DecimalValue(SubSeq(s, 1, Len(s) - 1)) + DigitValue(s[Len(s)])

\* int(s) on a text that passed isdigit(): the number, or ValueError
ParseInt(s) ==
    IF s # <<>> /\ \A i \in 1..Len(s) : s[i] \in DecimalChars
    THEN Return(DecimalValue(s))
    ELSE Raise("ValueError")

RECURSIVE NatText(_)
NatText(i) ==
    IF i < 10 THEN <<DigitChar(i)>>
    ELSE NatText(i \div 10) \o <<DigitChar(i % 10)>>

\* str(i) of an int
IntText(i) == IF i < 0 THEN <<"-">> \o NatText(-i) ELSE NatText(i)

Abs(n) == IF n < 0 THEN -n ELSE n

FractionText(r) ==
    CASE r = 0 -> <<"0">>
      [] r = 1 -> <<"1", "2", "5">>
      [] r = 2 -> <<"2", "5">>
      [] r = 3 -> <<"3", "7", "5">>
      [] r = 4 -> <<"5">>
      [] r = 5 -> <<"6", "2", "5">>
      [] r = 6 -> <<"7", "5">>
      [] r = 7 -> <<"8", "7", "5">>

\* str(x) of a float x = n/8
FloatText(n) ==
    (IF n < 0 THEN <<"-">> ELSE <<>>)
        \o NatText(Abs(n) \div 8) \o <<".">> \o FractionText(Abs(n) % 8)

Pad2(i) == <<DigitChar(i \div 10), DigitChar(i % 10)>>

\* strftime("%Y-%m-%d") of a date with a four-digit year
IsoDate(t) == NatText(t[1]) \o <<"-">> \o Pad2(t[2]) \o <<"-">> \o Pad2(t[3])

\* str(d) of a datetime.datetime or a Timestamp without microseconds
DatetimeText(t) ==
    IsoDate(t) \o <<" ">> \o Pad2(t[4]) \o <<":", "0", "0", ":", "0", "0">>

\* str(v)
Str(v) ==
    CASE v.k = "str" -> v.s
      [] v.k = "int" -> IntText(v.n \div 8)
      [] v.k = "float" -> FloatText(v.n)
      [] v.k = "nan" -> <<"n", "a", "n">>
      [] v.k = "NaT" -> <<"N", "a", "T">>
      [] v.k \in {"Timestamp", "datetime"} -> DatetimeText(v.t)

\* f"{x:.2f}": x = n/8 to two decimals, ties to even (n/8 is exact in binary)
FixedText(n) ==
    LET mills == 125 * Abs(n)
        q     == mills \div 10
        cents == IF mills % 10 = 5 /\ q % 2 = 1 THEN q + 1 ELSE q
    IN  (IF n < 0 THEN <<"-">> ELSE <<>>)
            \o NatText(cents \div 100) \o <<".">> \o Pad2(cents % 100)

(***************************************************************************)
(* The converters of process_excel.                                        *)
(***************************************************************************)
Sentinel == <<"*", "N", "o", "n", "e">>

\* faulty variant: the comparison without strip()
DebtorReferenceUntrimmed(customerName, cardId) ==
    IF Str(cardId) = Sentinel THEN customerName ELSE cardId

\* lines 32-34: the lambda of "Debtor Reference", on one row
DebtorReference(customerName, cardId) ==
    IF Strip(Str(cardId)) = Sentinel THEN customerName ELSE cardId

\* faulty variant: x <= 0 instead of x < 0
TransactionTypeZeroIsCredit(x) ==
    IF x.k \in {"int", "float"}
    THEN Return(StrVal(IF x.n <= 0 THEN <<"C", "R", "D">> ELSE <<"I", "N", "V">>))
    ELSE IF x.k = "nan"
    THEN Return(StrVal(<<"I", "N", "V">>))
    ELSE Raise("TypeError")

\* line 39: the lambda of "Transaction Type"; '<' between a str (or a
\* datetime) and 0 raises TypeError, and nan < 0 is False
TransactionType(x) ==
    IF x.k \in {"int", "float"}
    THEN Return(StrVal(IF x.n < 0 THEN <<"C", "R", "D">> ELSE <<"I", "N", "V">>))
    ELSE IF x.k = "nan"
    THEN Return(StrVal(<<"I", "N", "V">>))
    ELSE Raise("TypeError")

\* lines 43-52
convert_invoice(invoice) ==
    IF IsNa(invoice) THEN Return(StrVal(<<>>))
    ELSE LET invoice_str == Strip(Str(invoice))
         IN  IF IsDigit(invoice_str)
             THEN LET i == ParseInt(invoice_str)
                  IN  IF i.ok THEN Return(StrVal(IntText(i.v))) ELSE i
             ELSE Return(StrVal(invoice_str))

\* lines 57-62
convert_date(val) ==
    IF IsNa(val) THEN Return(StrVal(<<>>))
    ELSE IF IsTimestamp(val) THEN Return(StrVal(IsoDate(val.t)))
    ELSE Return(StrVal(Str(val)))

\* line 67: the lambda of "Document Balance"; format code 'f' on a str
\* raises ValueError, on a datetime it is an invalid strftime-free format
DocumentBalance(x) ==
    IF x.k \in {"int", "float"} THEN Return(StrVal(FixedText(x.n)))
    ELSE IF x.k = "nan" THEN Return(StrVal(<<"n", "a", "n">>))
    ELSE Raise("ValueError")

(***************************************************************************)
(* Spreadsheet cells and pd.read_excel (line 15).                          *)
(***************************************************************************)
Blank == [k |-> "blank", s |-> <<>>, n |-> 0, t |-> <<>>]
TextCell(s) == [k |-> "text", s |-> s, n |-> 0, t |-> <<>>]
NumberCell(n) == [k |-> "number", s |-> <<>>, n |-> n, t |-> <<>>]
DateCell(t) == [k |-> "date", s |-> <<>>, n |-> 0, t |-> t]

\* Texts read_excel turns into NaN (na_values is not given and
\* keep_default_na is left True); of pandas' default list, "" and "NA".
NaTexts == {<<>>, <<"N", "A">>}

\* The Python value the reader hands on for one cell: a numeric cell with an
\* integral value is an int, a date cell a datetime.datetime.
ReadCell(c) ==
    CASE c.k = "blank" -> NaN
      [] c.k = "text" -> IF c.s \in NaTexts THEN NaN ELSE StrVal(c.s)
      [] c.k = "number" -> IF c.n % 8 = 0 THEN IntVal(c.n \div 8) ELSE FloatVal(c.n)
      [] c.k = "date" -> DatetimeVal(c.t)

\* The column's dtype: datetime64 when every value present is a datetime
\* (its elements are then Timestamps), float64 / int64 when every value
\* present is a number, object otherwise (the elements stay as read).
InferColumn(vals) ==
    LET present == {i \in 1..Len(vals) : ~IsNa(vals[i])}
    IN  IF present # {} /\ \A i \in present : vals[i].k = "datetime"
        THEN [i \in 1..Len(vals) |->
                 IF IsNa(vals[i]) THEN NaT ELSE TimestampVal(vals[i].t)]
        ELSE IF /\ \A i \in present : vals[i].k \in {"int", "float"}
                /\ \E i \in 1..Len(vals) : vals[i].k \in {"nan", "float"}
        THEN [i \in 1..Len(vals) |->
                 IF IsNa(vals[i]) THEN NaN ELSE FloatVal(vals[i].n)]
        ELSE vals

\* The two results DataFrame.apply(axis=1) has had on a frame without rows.
ApplyEmptyResults == {"DataFrame", "Series"}

\* A DataFrame: its index labels and its columns by name.
Frame(index, col) == [index |-> index, col |-> col]
EmptyFrame == Frame(<<>>, <<>>)
Columns(frame) == DOMAIN frame.col

\* line 15: header=9 takes row 10 as the header, usecols="B:G" the six
\* columns; a file that is no workbook raises.
read_excel(file) ==
    IF file.kind # "xlsx" THEN Raise("BadZipFile")
    ELSE LET n == Len(file.rows)
             column(j) == InferColumn([i \in 1..n |-> ReadCell(file.rows[i][j])])
         IN  Return(Frame([i \in 1..n |-> i - 1],
                          [name \in {file.header[j] : j \in 1..Len(file.header)} |->
                              column(CHOOSE j \in 1..Len(file.header) :
                                         file.header[j] = name)]))

Required == {"Date", "Invoice No.", "Customer Name", "Card ID"}

\* the positions of 1..n that are in keep, in increasing order
Positions(n, keep) == SelectSeq([i \in 1..n |-> i], LAMBDA i : i \in keep)

\* the rows of frame at the positions pos, in that order
Take(frame, pos) ==
    Frame([k \in 1..Len(pos) |-> frame.index[pos[k]]],
          [name \in Columns(frame) |->
              [k \in 1..Len(pos) |-> frame.col[name][pos[k]]]])

\* faulty variant: the final row is removed by position, as the docstring words it
dropna_final_row(frame, subset) ==
    IF ~(subset \subseteq Columns(frame)) THEN Raise("KeyError")
    ELSE Return(Take(frame,
                     Positions(Len(frame.index), 1..(Len(frame.index) - 1))))

\* lines 23-25: df.dropna(subset=..., how="any"); a label of subset that is
\* no column raises KeyError
dropna(frame, subset) ==
    IF ~(subset \subseteq Columns(frame)) THEN Raise("KeyError")
    ELSE Return(Take(frame,
                     Positions(Len(frame.index),
                               {i \in 1..Len(frame.index) :
                                   \A name \in subset : ~IsNa(frame.col[name][i])})))

\* the function applied to give the column target (lines 39, 54, 64, 67)
Applied(target, x) ==
    CASE target = "Transaction Type" -> TransactionType(x)
      [] target = "Document Number" -> convert_invoice(x)
      [] target = "Document Date" -> convert_date(x)
      [] target = "Document Balance" -> DocumentBalance(x)

\* Series.apply(f) for the column target: f on every element in order; the
\* first exception ends it
SeriesApply(vals, target) ==
    LET failed == {i \in 1..Len(vals) : ~Applied(target, vals[i]).ok}
    IN  IF failed # {}
        THEN Raise(Applied(target,
                           vals[CHOOSE i \in failed : \A j \in failed : i <= j]).e)
        ELSE Return([i \in 1..Len(vals) |-> Applied(target, vals[i]).v])

\* df[name] = vals
SetColumn(frame, name, vals) ==
    Frame(frame.index,
          [c \in Columns(frame) \cup {name} |->
              IF c = name THEN vals ELSE frame.col[c]])

\* lines 31-36: df.apply(lambda row: ..., axis=1) and the assignment.  On a
\* frame without rows the result depends on the pandas installed (the
\* repository pins none): apply returns either a copy of the frame, and
\* assigning a six-column frame to one column raises ValueError, or an empty
\* Series, which becomes the new column.
AssignDebtorReference(frame) ==
    IF Len(frame.index) = 0
    THEN IF apply_empty_result = "DataFrame"
         THEN Raise("ValueError")
         ELSE Return(SetColumn(frame, "Debtor Reference", <<>>))
    ELSE Return(SetColumn(frame, "Debtor Reference",
                          [i \in 1..Len(frame.index) |->
                              DebtorReference(frame.col["Customer Name"][i],
                                              frame.col["Card ID"][i])]))

\* df[target] = df[source].apply(f); df[source] of a missing column raises
\* KeyError
AssignApplied(frame, target, source) ==
    IF source \notin Columns(frame) THEN Raise("KeyError")
    ELSE LET r == SeriesApply(frame.col[source], target)
         IN  IF r.ok THEN Return(SetColumn(frame, target, r.v)) ELSE r

OutputColumns ==
    <<"Debtor Reference", "Transaction Type", "Document Number",
      "Document Date", "Document Balance">>

\* lines 70-78: df[[...]], the five columns in the required order
SelectColumns(frame) ==
    Frame(frame.index,
          [name \in {OutputColumns[j] : j \in 1..Len(OutputColumns)} |->
              frame.col[name]])

\* line 121: df_final.to_csv(index=False): the header line and one line per
\* row, each the row's fields in column order
to_csv(frame) ==
    [header |-> OutputColumns,
     lines  |-> [i \in 1..Len(frame.index) |->
                    [j \in 1..Len(OutputColumns) |->
                        Str(frame.col[OutputColumns[j]][i])]]]

(***************************************************************************)
(* The inputs: uploaded files.                                             *)
(***************************************************************************)
Workbook(header, rows) == [kind |-> "xlsx", header |-> header, rows |-> rows]
Garbage == [kind |-> "garbage", header |-> <<>>, rows |-> <<>>]
NoFile == [kind |-> "None", header |-> <<>>, rows |-> <<>>]

\* row 10 of the sheet, columns B to G
GoodHeader ==
    <<"Date", "Invoice No.", "Customer Name", "Amount", "Amount Due", "Card ID">>
NoCardHeader ==
    <<"Date", "Invoice No.", "Customer Name", "Amount", "Amount Due", "Card">>
NoAmountDueHeader ==
    <<"Date", "Invoice No.", "Customer Name", "Amount", "Balance", "Card ID">>
Headers == {GoodHeader, NoCardHeader, NoAmountDueHeader}

Day1 == <<2024, 1, 5, 0>>
Day2 == <<2024, 1, 6, 13>>
Acme == TextCell(<<"A", "c", "m", "e">>)
Beta == TextCell(<<"B", "e", "t", "a">>)

\* A data row: Date, Invoice No., Customer Name, Amount, Amount Due, Card ID
RowAcme ==
    <<DateCell(Day1), TextCell(<<"0", "0", "7">>), Acme, NumberCell(800),
      NumberCell(1399), TextCell(Sentinel)>>
RowBeta ==
    <<DateCell(Day2), TextCell(<<"I", "N", "V", "-", "9">>), Beta,
      NumberCell(-40), NumberCell(-40), TextCell(<<"C", "9", "9">>)>>
RowTotals == <<Blank, Blank, Blank, Blank, NumberCell(1359), Blank>>
RowNoAmounts ==
    <<DateCell(Day1), TextCell(<<"1", "2">>), Acme, Blank, Blank,
      TextCell(<<"C", "1">>)>>
RowTextAmount ==
    <<DateCell(Day1), TextCell(<<"8">>), Beta, NumberCell(8),
      TextCell(<<"a", "b", "c">>), TextCell(<<"C", "2">>)>>
RowTextDate ==
    <<TextCell(<<"T", "B", "D">>), TextCell(<<"9">>), Acme, NumberCell(0),
      NumberCell(0), TextCell(<<"C", "3">>)>>
RowNaCard ==
    <<DateCell(Day1), TextCell(<<"1", "0">>), Acme, NumberCell(8),
      NumberCell(8), TextCell(<<"N", "A">>)>>
RowNoDate ==
    <<Blank, TextCell(<<"1", "1">>), Acme, NumberCell(8), NumberCell(8),
      TextCell(<<"C", "4">>)>>
RowNoInvoice ==
    <<DateCell(Day1), Blank, Acme, NumberCell(8), NumberCell(8),
      TextCell(<<"C", "5">>)>>
RowNoCustomer ==
    <<DateCell(Day1), TextCell(<<"1", "3">>), Blank, NumberCell(8),
      NumberCell(8), TextCell(<<"C", "6">>)>>
RowNoCard ==
    <<DateCell(Day1), TextCell(<<"1", "4">>), Acme, NumberCell(8),
      NumberCell(8), Blank>>

DataRows ==
    {RowAcme, RowBeta, RowTotals, RowNoAmounts, RowTextAmount, RowTextDate,
     RowNaCard, RowNoDate, RowNoInvoice, RowNoCustomer, RowNoCard}

\* the sequences of at most n elements of S
SeqUpTo(S, n) == UNION {[1..k -> S] : k \in 0..n}

Files ==
    {Garbage} \cup
    {Workbook(h, rows) : h \in Headers, rows \in SeqUpTo(DataRows, MaxRows)}

RerunRows == {RowAcme, RowTotals, RowTextAmount}
RerunFiles ==
    {Garbage} \cup
    {Workbook(GoodHeader, rows) : rows \in SeqUpTo(RerunRows, MaxRerunRows)}

(***************************************************************************)
(* main and process_excel, statement by statement.                         *)
(***************************************************************************)
NoCsv == [header |-> <<>>, lines |-> <<>>]
NotCalled == Raise("not called")

Init ==
    /\ uploaded_file = NoFile
    /\ pc = "idle"
    /\ df = EmptyFrame
    /\ df_final = EmptyFrame
    /\ exc = ""
    /\ preview = EmptyFrame
    /\ csv_data = NoCsv
    /\ download = NoCsv
    /\ errors = <<>>
    /\ log = <<>>
    /\ arg = <<>>
    /\ ret = NotCalled
    /\ apply_empty_result \in ApplyEmptyResults

\* lines 111-112: the uploader returns a file and the script runs from the
\* top: a fresh page and fresh locals
UploadFile(f) ==
    /\ uploaded_file' = f
    /\ pc' = "read_excel"
    /\ df' = EmptyFrame
    /\ df_final' = EmptyFrame
    /\ exc' = ""
    /\ preview' = EmptyFrame
    /\ csv_data' = NoCsv
    /\ download' = NoCsv
    /\ errors' = <<>>
    /\ UNCHANGED <<log, arg, ret, apply_empty_result>>

\* the first upload of a session
Upload == pc = "idle" /\ \E f \in Files : UploadFile(f)

\* an upload, the first or a later one
UploadAgain ==
    /\ pc \in {"idle", "done"}
    /\ Len(log) < MaxRuns
    /\ \E f \in RerunFiles : UploadFile(f)

\* one statement of process_excel that assigns df: r is its result
ProcessStep(at, r, next) ==
    /\ pc = at
    /\ IF r.ok
       THEN df' = r.v /\ pc' = next /\ exc' = exc
       ELSE df' = df /\ pc' = "except" /\ exc' = r.e
    /\ UNCHANGED <<apply_empty_result, uploaded_file, df_final, preview, csv_data, download,
                   errors, log, arg, ret>>

\* faulty variant: the file of the previous run is read again (a stale cache)
ReadExcelCached ==
    ProcessStep("read_excel",
                read_excel(IF log = <<>> THEN uploaded_file ELSE log[Len(log)][1]),
                "dropna")

\* line 15
ReadExcel == ProcessStep("read_excel", read_excel(uploaded_file), "dropna")

\* lines 23-25
DropNa == ProcessStep("dropna", dropna(df, Required), "debtor")

\* lines 31-36
DebtorStep == ProcessStep("debtor", AssignDebtorReference(df), "transaction")

\* line 39
TransactionStep ==
    ProcessStep("transaction",
                AssignApplied(df, "Transaction Type", "Amount Due"),
                "number")

\* line 54
NumberStep ==
    ProcessStep("number",
                AssignApplied(df, "Document Number", "Invoice No."),
                "date")

\* line 64
DateStep ==
    ProcessStep("date",
                AssignApplied(df, "Document Date", "Date"),
                "balance")

\* line 67
BalanceStep ==
    ProcessStep("balance",
                AssignApplied(df, "Document Balance", "Amount Due"),
                "return")

\* lines 70-80 and 115: final_df is returned and bound to df_final
ReturnFrame ==
    /\ pc = "return"
    /\ df_final' = SelectColumns(df)
    /\ pc' = "preview"
    /\ UNCHANGED <<apply_empty_result, uploaded_file, df, exc, preview, csv_data, download,
                   errors, log, arg, ret>>

\* lines 117-118
Preview ==
    /\ pc = "preview"
    /\ preview' = df_final
    /\ pc' = "to_csv"
    /\ UNCHANGED <<apply_empty_result, uploaded_file, df, df_final, exc, csv_data, download,
                   errors, log, arg, ret>>

\* line 121
ToCsv ==
    /\ pc = "to_csv"
    /\ csv_data' = to_csv(df_final)
    /\ pc' = "download"
    /\ UNCHANGED <<apply_empty_result, uploaded_file, df, df_final, exc, preview, download,
                   errors, log, arg, ret>>

Outcome(shown, offered) == [errors |-> shown, csv |-> offered]

\* lines 122-127
DownloadButton ==
    /\ pc = "download"
    /\ download' = csv_data
    /\ pc' = "done"
    /\ log' = Append(log, <<uploaded_file, Outcome(errors, csv_data)>>)
    /\ UNCHANGED <<apply_empty_result, uploaded_file, df, df_final, exc, preview, csv_data,
                   errors, arg, ret>>

\* faulty variant: the handler also offers a header-only CSV
ExceptOfferingCsv ==
    /\ pc = "except"
    /\ errors' = Append(errors, exc)
    /\ download' = [header |-> OutputColumns, lines |-> <<>>]
    /\ pc' = "done"
    /\ log' = Append(log, <<uploaded_file, Outcome(Append(errors, exc), download')>>)
    /\ UNCHANGED <<apply_empty_result, uploaded_file, df, df_final, exc, preview, csv_data,
                   arg, ret>>

\* lines 128-129
Except ==
    /\ pc = "except"
    /\ errors' = Append(errors, exc)
    /\ pc' = "done"
    /\ log' = Append(log, <<uploaded_file, Outcome(Append(errors, exc), download)>>)
    /\ UNCHANGED <<apply_empty_result, uploaded_file, df, df_final, exc, preview, csv_data,
                   download, arg, ret>>

Run ==
    \/ ReadExcel
    \/ DropNa
    \/ DebtorStep
    \/ TransactionStep
    \/ NumberStep
    \/ DateStep
    \/ BalanceStep
    \/ ReturnFrame
    \/ Preview
    \/ ToCsv
    \/ DownloadButton
    \/ Except

Next == Upload \/ Run

\* one upload
Spec == Init /\ [][Next]_vars

NextRerun == UploadAgain \/ Run

\* several uploads, one after the other
SpecRerun == Init /\ [][NextRerun]_vars

(***************************************************************************)
(* The converters called on their own, on every input of a bounded set.    *)
(***************************************************************************)
InvoiceAlphabet == {"0", "7", " ", "-", ".", "A", "ar3", "sup2"}

InvoiceValues ==
    {StrVal(s) : s \in SeqUpTo(InvoiceAlphabet, MaxInvoiceLen)}
        \cup {NaN, IntVal(48071), FloatVal(60)}

InitInvoice ==
    /\ uploaded_file = NoFile
    /\ pc = "convert_invoice"
    /\ df = EmptyFrame
    /\ df_final = EmptyFrame
    /\ exc = ""
    /\ preview = EmptyFrame
    /\ csv_data = NoCsv
    /\ download = NoCsv
    /\ errors = <<>>
    /\ log = <<>>
    /\ arg \in InvoiceValues
    /\ ret = NotCalled
    /\ apply_empty_result \in ApplyEmptyResults

\* line 54, one element: convert_invoice(arg)
CallConvertInvoice ==
    /\ pc = "convert_invoice"
    /\ ret' = convert_invoice(arg)
    /\ pc' = "returned"
    /\ UNCHANGED <<apply_empty_result, uploaded_file, df, df_final, exc, preview, csv_data,
                   download, errors, log, arg>>

SpecInvoice == InitInvoice /\ [][CallConvertInvoice]_vars

CardAlphabet == {"*", "N", "o", "n", "e", " "}

CardValues ==
    {StrVal(s) : s \in SeqUpTo(CardAlphabet, MaxCardLen) \ {<<>>}}
        \cup {IntVal(99)}

InitDebtor ==
    /\ uploaded_file = NoFile
    /\ pc = "debtor_reference"
    /\ df = EmptyFrame
    /\ df_final = EmptyFrame
    /\ exc = ""
    /\ preview = EmptyFrame
    /\ csv_data = NoCsv
    /\ download = NoCsv
    /\ errors = <<>>
    /\ log = <<>>
    /\ arg \in {<<StrVal(Acme.s), card>> : card \in CardValues}
    /\ ret = NotCalled
    /\ apply_empty_result \in ApplyEmptyResults

\* lines 32-34, one row: the lambda on (Customer Name, Card ID) = arg
CallDebtorReference ==
    /\ pc = "debtor_reference"
    /\ ret' = Return(DebtorReference(arg[1], arg[2]))
    /\ pc' = "returned"
    /\ UNCHANGED <<apply_empty_result, uploaded_file, df, df_final, exc, preview, csv_data,
                   download, errors, log, arg>>

SpecDebtor == InitDebtor /\ [][CallDebtorReference]_vars

(***************************************************************************)
(* Vocabulary of the properties.                                           *)
(***************************************************************************)
Range(q) == {q[i] : i \in 1..Len(q)}

\* The sheet that was uploaded, as the user sees it.
SourceRows == uploaded_file.rows

\* Columns B, C, D and G of a sheet with the expected header: Date,
\* Invoice No., Customer Name, Card ID; column F is Amount Due.
RequiredCells(row) == {row[1], row[2], row[3], row[6]}
AmountDueCell(row) == row[5]
DateOfRow(row) == row[1]

\* process_excel is past the required-field filter and has not failed
Filtered ==
    \/ pc \in {"debtor", "transaction", "number", "date", "balance", "return",
               "preview", "to_csv", "download"}
    \/ pc = "done" /\ exc = ""

\* process_excel has returned normally: df_final is its output sequence
Succeeded ==
    \/ pc \in {"preview", "to_csv", "download"}
    \/ pc = "done" /\ exc = ""

\* the source rows (1-based positions) the frame still holds; pandas keeps
\* the 0-based label of every row through dropna
KeptPositions(frame) == {l + 1 : l \in Range(frame.index)}

\* one row of a frame, by column name
RowOf(frame, i) == [name \in Columns(frame) |-> frame.col[name][i]]

\* the uploaded sheet, row by row, with the values read_excel gives them
RowsAsRead ==
    LET frame == read_excel(uploaded_file).v
    IN  [i \in 1..Len(frame.index) |-> RowOf(frame, i)]

\* the rows that survive the required-field filter, in source order
SurvivingRows ==
    SelectSeq(RowsAsRead, LAMBDA r : \A name \in Required : ~IsNa(r[name]))

\* the five output fields of one surviving row
TransformRow(r) ==
    <<DebtorReference(r["Customer Name"], r["Card ID"]),
      TransactionType(r["Amount Due"]).v,
      convert_invoice(r["Invoice No."]).v,
      convert_date(r["Date"]).v,
      DocumentBalance(r["Amount Due"]).v>>

\* the i-th record of an output frame
OutputRecord(frame, i) ==
    [j \in 1..Len(OutputColumns) |-> frame.col[OutputColumns[j]][i]]

(***************************************************************************)
(* C1.  A source row contributes a record if and only if its Date, Invoice *)
(* No., Customer Name and Card ID cells are all non-blank, wherever it     *)
(* sits and whatever Amount and Amount Due hold.  (Fails: a Card ID cell   *)
(* holding the text "NA" is not blank, and its row is dropped.)            *)
(***************************************************************************)
C1_KeptIffRequiredCellsNonBlank ==
    Filtered =>
        \A i \in 1..Len(SourceRows) :
            (i \in KeptPositions(df)) <=>
                (\A c \in RequiredCells(SourceRows[i]) : c.k # "blank")

\* What the code does instead: a row is kept if and only if none of the four
\* values is missing as read_excel reads it (blank, or an NA text).
C1_KeptIffNoneMissingAsRead ==
    Filtered =>
        \A i \in 1..Len(SourceRows) :
            (i \in KeptPositions(df)) <=>
                (\A c \in RequiredCells(SourceRows[i]) : ~IsNa(ReadCell(c)))

C3_NoFailureAfterExtraction ==
    ~(/\ pc = "except"
      /\ uploaded_file.kind = "xlsx"
      /\ uploaded_file.header = GoodHeader
      /\ Len(df.index) > 0)

(***************************************************************************)
(* C4.  A failure anywhere gives exactly one error message and no CSV,     *)
(* produced or offered; a CSV is produced only when process_excel returned *)
(* normally, and it then holds every surviving record, with no error.      *)
(***************************************************************************)
C4_ErrorOrCompleteCsv ==
    /\ Len(errors) <= 1
    /\ (exc # "" \/ errors # <<>>) => csv_data = NoCsv /\ download = NoCsv
    /\ pc = "done" /\ exc # "" => errors = <<exc>>
    /\ pc = "done" /\ exc = "" => download = csv_data /\ csv_data # NoCsv
    /\ csv_data # NoCsv =>
          LET survivors == SurvivingRows
          IN  /\ Succeeded
              /\ errors = <<>>
              /\ csv_data.header = OutputColumns
              /\ Len(csv_data.lines) = Len(survivors)
              /\ \A i \in 1..Len(survivors) :
                    \A j \in 1..Len(OutputColumns) :
                        csv_data.lines[i][j] = Str(TransformRow(survivors[i])[j])
    /\ download # NoCsv => download = csv_data

\* a conversion that failed in a field conversion, after the filter
C4_Witness ==
    /\ pc = "done"
    /\ exc = "TypeError"
    /\ errors = <<"TypeError">>
    /\ Len(df.index) > 0

(***************************************************************************)
(* C5.  Every output record's Document Balance is an optional minus sign,  *)
(* one or more digits, a decimal point and exactly two digits.  (Fails: a  *)
(* surviving row with a blank Amount Due gets "nan".)                      *)
(***************************************************************************)
IsFixedPoint(s) ==
    LET body == IF s # <<>> /\ s[1] = "-" THEN Tail(s) ELSE s
        len  == Len(body)
    IN  /\ len >= 4
        /\ body[len - 2] = "."
        /\ \A i \in 1..len : i # len - 2 => body[i] \in AsciiDigits

C5_BalanceIsFixedPoint ==
    Succeeded =>
        \A i \in 1..Len(df_final.index) :
            IsFixedPoint(df_final.col["Document Balance"][i].s)

(***************************************************************************)
(* C6.  convert_invoice returns "" for a blank value; otherwise, with t    *)
(* the trimmed text of the value, t without its leading zeros when t is    *)
(* non-empty and all of its characters are among 0-9, and t unchanged in   *)
(* every other case; it never raises.  (Fails: "sup2" passes isdigit() and *)
(* int() raises ValueError on it; "ar3" is rewritten to "3".)              *)
(***************************************************************************)
RECURSIVE WithoutLeadingZeros(_)
WithoutLeadingZeros(t) ==
    IF Len(t) > 1 /\ Head(t) = "0" THEN WithoutLeadingZeros(Tail(t)) ELSE t

ExpectedDocumentNumber(invoice) ==
    IF invoice.k = "nan" THEN <<>>
    ELSE LET t == Strip(Str(invoice))
         IN  IF t # <<>> /\ Range(t) \subseteq AsciiDigits
             THEN WithoutLeadingZeros(t)
             ELSE t

C6_ConvertInvoice ==
    pc = "returned" =>
        /\ ret.ok
        /\ ret.v = StrVal(ExpectedDocumentNumber(arg))

\* The same on ASCII text only, where the code agrees with the claim.
C6_ConvertInvoiceOnAscii ==
    pc = "returned" /\ Range(arg.s) \cap {"ar3", "sup2"} = {} =>
        /\ ret.ok
        /\ ret.v = StrVal(ExpectedDocumentNumber(arg))

(***************************************************************************)
(* C7.  debtorReference is customerName when the text of cardId, without   *)
(* its surrounding whitespace, is exactly "*None", and cardId in every     *)
(* other case (other casings, texts that only contain "*None").            *)
(***************************************************************************)
\* s is the sentinel between two runs of whitespace
IsPaddedSentinel(s) ==
    \E a \in 0..Len(s) :
        /\ a + Len(Sentinel) <= Len(s)
        /\ SubSeq(s, a + 1, a + Len(Sentinel)) = Sentinel
        /\ \A i \in 1..Len(s) :
               (i <= a \/ i > a + Len(Sentinel)) => s[i] \in Whitespace

C7_DebtorReference ==
    pc = "returned" =>
        ret.v = IF IsPaddedSentinel(Str(arg[2])) THEN arg[1] ELSE arg[2]

\* the sentinel behind a space was replaced by the customer name
C7_Witness ==
    /\ pc = "returned"
    /\ arg[2] = StrVal(<<" ">> \o Sentinel)
    /\ ret.v = arg[1]

(***************************************************************************)
(* C8.  Every output record's Transaction Type is "CRD" or "INV": "CRD"    *)
(* if and only if the row's Amount Due is a number below zero, "INV"       *)
(* otherwise, zero included.                                               *)
(***************************************************************************)
\* the uploaded rows that the output frame holds, in the frame's order
OutputSourceRows ==
    [i \in 1..Len(df_final.index) |-> SourceRows[df_final.index[i] + 1]]

C8_TransactionType ==
    Succeeded =>
        \A i \in 1..Len(df_final.index) :
            LET due  == AmountDueCell(OutputSourceRows[i])
                type == df_final.col["Transaction Type"][i].s
            IN  /\ type \in {<<"C", "R", "D">>, <<"I", "N", "V">>}
                /\ type = <<"C", "R", "D">> <=> (due.k = "number" /\ due.n < 0)

\* a finished conversion with a zero Amount Due ("INV") after a negative one
C8_Witness ==
    /\ pc = "done"
    /\ exc = ""
    /\ Len(df_final.index) = 2
    /\ AmountDueCell(OutputSourceRows[1]) = NumberCell(-40)
    /\ AmountDueCell(OutputSourceRows[2]) = NumberCell(0)
    /\ df_final.col["Transaction Type"][1].s = <<"C", "R", "D">>
    /\ df_final.col["Transaction Type"][2].s = <<"I", "N", "V">>

(***************************************************************************)
(* C9.  Document Date is YYYY-MM-DD for a date cell, the text unchanged    *)
(* for a cell that is no date, and "" for a blank; no date is rendered in  *)
(* another form.  (Fails: in a Date column that also holds text, a date    *)
(* reaches convert_date as a datetime.datetime, which is no pd.Timestamp,  *)
(* and is rendered by str with its time of day.)                           *)
(***************************************************************************)
ExpectedDocumentDate(cell) ==
    CASE cell.k = "date" -> IsoDate(cell.t)
      [] cell.k = "text" -> cell.s
      [] cell.k = "blank" -> <<>>
      [] cell.k = "number" -> Str(ReadCell(cell))

C9_DocumentDate ==
    Succeeded =>
        \A i \in 1..Len(df_final.index) :
            df_final.col["Document Date"][i].s
                = ExpectedDocumentDate(DateOfRow(OutputSourceRows[i]))

(***************************************************************************)
(* C10.  Two runs on the same file have the same outcome (the same error,  *)
(* or the same CSV), whatever was converted before or between them.        *)
(***************************************************************************)
C10_SameFileSameOutcome ==
    \A i \in 1..Len(log) : \A j \in 1..Len(log) :
        log[i][1] = log[j][1] => log[i][2] = log[j][2]

\* a file converted to a CSV of one record, another file, the first again
C10_Witness ==
    /\ Len(log) = 3
    /\ log[1][1] = log[3][1]
    /\ log[2][1] # log[1][1]
    /\ Len(log[1][2].csv.lines) = 1

====
